---- MODULE Spec2Model ----
(***************************************************************************)
(* State-machine model of the Nexus PhotoShop backend (src/app.py): a      *)
(* Flask service that keeps uploaded images in one directory, bounded by   *)
(* MAX_IMAGES, with an oldest-first eviction pass.                         *)
(*                                                                         *)
(* The directory is the only shared state.  Every request handler is a     *)
(* sequence of filesystem calls; each call is one atomic step and the      *)
(* steps of concurrent requests interleave freely (the code takes no       *)
(* lock).  A scan is two steps: os.listdir (a snapshot of the names) and   *)
(* the loop of getsize/getmtime calls over that snapshot.  A file's size   *)
(* and modification time never change once it is written, so the loop's    *)
(* result depends only on whether every enumerated file still exists when  *)
(* it is read: the loop is one step that fails when one of them is gone.   *)
(* os.listdir returns the names in arbitrary order; the order is chosen    *)
(* where the code first depends on it (the stable sorts).                  *)
(*                                                                         *)
(* In the same way the body of a save request is drawn where save_image    *)
(* first reads it (after the capacity check), and the fresh file name and  *)
(* the encoded size are drawn at the write: nothing else can observe them  *)
(* earlier.                                                                *)
(*                                                                         *)
(* A filename is a sequence of tokens: "." and "/" are tokens of their     *)
(* own, every other token is a maximal run of other characters.            *)
(*                                                                         *)
(* files   the upload directory: name -> [mtime, size]                     *)
(* clock   the latest modification time given to a file                    *)
(* ties    writes so far that shared their instant with the one before     *)
(* nextId  the next fresh file name                                        *)
(* quota   requests still to arrive in this run                            *)
(* req     the locals of the handler each worker runs                      *)
(* resp    the response sent by the last step, NoResp if it sent none      *)
(* serial  the server handles one request at a time                        *)
(* hist    the responses of a serial server, in order                      *)
(***************************************************************************)
EXTENDS Integers, Sequences, FiniteSets, TLC

\* app.config['MAX_IMAGES'], scaled down from 100
MAX_IMAGES == 2

\* app.config['ALLOWED_EXTENSIONS']
ALLOWED_EXTENSIONS == {"png", "jpg", "jpeg", "gif", "bmp"}

\* number of requests the server handles at the same time
NProcs == 3

\* number of requests in one run
MaxReqs == 3

\* number of requests in one maintenance run
MaxMaint == 2

\* largest size of a stored file (abstract units)
MaxSize == 2

\* number of writes in one run that fall in the same instant of the
\* filesystem's clock as the write before them
MaxTies == 1

\* largest number of images in the directory when the maintenance runs start
MaxInit == 4

VARIABLES files, clock, ties, nextId, quota, req, resp, serial, hist

vars == <<files, clock, ties, nextId, quota, req, resp, serial, hist>>

Procs == 1..NProcs

-----------------------------------------------------------------------------
(* Filenames *)

\* str.lower() on the tokens of the model's alphabet
Lower(tok) ==
  CASE tok = "PNG" -> "png"
    [] tok = "JPG" -> "jpg"
    [] OTHER -> tok

DotIdx(fn) == {i \in 1..Len(fn) : fn[i] = "."}

MaxOf(S) == CHOOSE x \in S : \A y \in S : y <= x

\* filename.rsplit('.', 1)[1]
Extension(fn) == SubSeq(fn, MaxOf(DotIdx(fn)) + 1, Len(fn))

\* allowed_file comparing the extension with its dot, as os.path.splitext
\* would return it
allowed_file_dotted(fn) ==
  /\ DotIdx(fn) # {}
  /\ Len(Extension(fn)) = 1
  /\ ("." \o Lower(Extension(fn)[1])) \in ALLOWED_EXTENSIONS

allowed_file(fn) ==
  /\ DotIdx(fn) # {}
  /\ Len(Extension(fn)) = 1
  /\ Lower(Extension(fn)[1]) \in ALLOWED_EXTENSIONS

\* the traversal check without its '..' test
IsUnsafeNoDots(fn) == Len(fn) > 0 /\ fn[1] = "/"

\* '..' in filename or filename.startswith('/')
IsUnsafe(fn) ==
  \/ \E i \in 1..(Len(fn) - 1) : fn[i] = "." /\ fn[i + 1] = "."
  \/ Len(fn) > 0 /\ fn[1] = "/"

\* nexus_edit_<timestamp>_<uuid8>.png; the uuid makes every name fresh
GenName(id) == <<"nexus_edit_" \o ToString(id), ".", "png">>

NotesTxt == <<"notes", ".", "txt">>
LegacyPng == <<"photo", ".", "PNG">>
ParentPath == <<".", ".", "/", "etc", "/", "passwd">>
RootPath == <<"/", "etc", "/", "passwd">>
MissingName == GenName(0)

\* the filenames a get or delete request may carry
ReqNames == DOMAIN files \cup {MissingName, ParentPath, RootPath}

-----------------------------------------------------------------------------
(* Request bodies of POST /save *)

NoData == [via |-> "none", upname |-> <<>>, content |-> "none"]

JsonBody(c) == [via |-> "json", upname |-> <<>>, content |-> c]

FileBody(n, c) == [via |-> "file", upname |-> n, content |-> c]

Payloads ==
  {JsonBody(c) : c \in {"image", "badb64", "notimage"}}
    \cup {FileBody(<<"pic", ".", "JPG">>, c) : c \in {"image", "notimage"}}
    \cup {FileBody(<<"doc", ".", "txt">>, "image"), NoData}

\* a decode that checks the base64 text only and never opens the image
DecodesBase64Only(d) == d.content # "badb64"

\* base64.b64decode followed by Image.open succeed
Decodes(d) == d.content = "image"

-----------------------------------------------------------------------------
(* The directory *)

Stored(n) == n \in DOMAIN files

RemoveFile(n) == [m \in DOMAIN files \ {n} |-> files[m]]

\* the size of the k-th image the server encodes: sizes differ between
\* files, and no handler branches on a size
SizeOf(k) == (k % MaxSize) + 1

\* the modification time of a file written now: later than every earlier
\* write, or in the same instant as the last one
WriteTimes == {clock + 1} \cup (IF clock > 0 /\ ties < MaxTies THEN {clock} ELSE {})

WriteFile(n, t, s) == (n :> [mtime |-> t, size |-> s]) @@ files

RECURSIVE SumSize(_)
SumSize(S) ==
  IF S = {} THEN 0
  ELSE LET n == CHOOSE x \in S : TRUE IN files[n].size + SumSize(S \ {n})

\* the stat loop of a scan over the snapshot snap raises no exception
ScanOk(snap) == \A n \in snap : allowed_file(n) => Stored(n)

\* the free slots without the clamp at 0
MaxNatUnclamped(a, b) == b

\* max(a, b)
MaxNat(a, b) == IF a >= b THEN a ELSE b

\* the dictionary get_storage_info returns
get_storage_info(snap) ==
  LET imgs == {n \in snap : allowed_file(n)} IN
  [total_images |-> Cardinality(imgs),
   total_size_bytes |-> SumSize(imgs),
   max_images |-> MAX_IMAGES,
   remaining_slots |-> MaxNat(0, MAX_IMAGES - Cardinality(imgs))]

\* the orders in which os.listdir may return the names of S
Enumerations(S) ==
  {s \in [1..Cardinality(S) -> S] : \A i, j \in DOMAIN s : i # j => s[i] # s[j]}

Entry(n) == [name |-> n, mtime |-> files[n].mtime]

RECURSIVE Insert(_, _, _)
Insert(sorted, x, desc) ==
  IF sorted = <<>> THEN <<x>>
  ELSE IF (IF desc THEN Head(sorted).mtime >= x.mtime
                   ELSE Head(sorted).mtime <= x.mtime)
       THEN <<Head(sorted)>> \o Insert(Tail(sorted), x, desc)
       ELSE <<x>> \o sorted

\* the sort with its direction reversed
RECURSIVE SortReversed(_, _)
SortReversed(s, desc) ==
  IF s = <<>> THEN <<>>
  ELSE Insert(SortReversed(SubSeq(s, 1, Len(s) - 1), desc), s[Len(s)], ~desc)

\* list.sort(key = modification time): stable
RECURSIVE SortByMtime(_, _)
SortByMtime(s, desc) ==
  IF s = <<>> THEN <<>>
  ELSE Insert(SortByMtime(SubSeq(s, 1, Len(s) - 1), desc), s[Len(s)], desc)

\* len(images) > MAX_IMAGES
OverLimit(n) == n > MAX_IMAGES

\* a pass that removes one image only
ImagesToRemoveOne(n) == 1

\* images_to_remove
ImagesToRemove(n) == n - MAX_IMAGES

\* the capacity check with > for >=
LimitReachedStrict(info) == info.total_images > MAX_IMAGES

\* storage_info['total_images'] >= MAX_IMAGES
LimitReached(info) == info.total_images >= MAX_IMAGES

-----------------------------------------------------------------------------
(* Requests *)

\* the locals of a handler: snap is the result of os.listdir, images the
\* paths images[0 .. images_to_remove - 1] the removal loop reads, i its index
Idle == [op |-> "idle", pc |-> "idle", fn |-> <<>>, snap |-> {},
         images |-> <<>>, i |-> 0]

NoResp == [op |-> "none", status |-> 0, err |-> "", io |-> FALSE, body |-> <<>>]

Resp(op, status, err, io, body) ==
  [op |-> op, status |-> status, err |-> err, io |-> io, body |-> body]

Quiescent == \A p \in Procs : req[p].pc = "idle"

\* a request goes to the first free worker; a serial server has one worker
CanStart(p) ==
  /\ req[p].pc = "idle"
  /\ quota > 0
  /\ \A q \in 1..(p - 1) : req[q].pc # "idle"
  /\ serial => p = 1

\* the request of p goes on: its locals become r; the step sends no response
Goto(p, r) ==
  /\ req' = [req EXCEPT ![p] = r]
  /\ resp' = NoResp

\* the request of p ends: the step sends the response r
Finish(p, r) ==
  /\ req' = [req EXCEPT ![p] = Idle]
  /\ resp' = r

\* a serial server logs the requests it completed: the response and the
\* names in the directory when it was sent
Log(p) ==
  /\ hist' = IF serial /\ req'[p].pc = "idle"
             THEN Append(hist, [op |-> resp'.op, status |-> resp'.status,
                                err |-> resp'.err, body |-> resp'.body,
                                names |-> DOMAIN files'])
             ELSE hist
  /\ serial' = serial

Init ==
  /\ \E k \in 0..MAX_IMAGES :
       /\ files = [n \in {GenName(i) : i \in 1..k}
                     |-> LET i == CHOOSE j \in 1..k : n = GenName(j)
                         IN [mtime |-> i, size |-> SizeOf(i)]]
       /\ clock = k
       /\ nextId = k + 1
  /\ ties = 0
  /\ quota = MaxReqs
  /\ req = [p \in Procs |-> Idle]
  /\ resp = NoResp
  /\ serial = FALSE
  /\ hist = <<>>

-----------------------------------------------------------------------------
(* POST /save *)

\* save_image: the scan of get_storage_info starts (os.listdir)
StartSave(p) ==
  /\ CanStart(p)
  /\ quota' = quota - 1
  /\ Goto(p, [Idle EXCEPT !.op = "save", !.pc = "sv_stat", !.snap = DOMAIN files])
  /\ UNCHANGED <<files, clock, ties, nextId>>
  /\ Log(p)

\* what save_image decides before the file is written, in the code's order:
\* the capacity check, the dispatch on the request body, the decode
SaveOutcome(snap, d) ==
  IF ~ScanOk(snap) THEN "internal"
  ELSE IF LimitReached(get_storage_info(snap)) THEN "capacity"
  ELSE IF d.via = "json"
       THEN (IF Decodes(d) THEN "proceed" ELSE "decode")
  ELSE IF d.via = "file"
       THEN (IF allowed_file(d.upname)
             THEN (IF Decodes(d) THEN "proceed" ELSE "decode")
             ELSE "filetype")
  ELSE "nodata"

\* "decode", "write" and "getsize" are the three causes of the response
\* 'Failed to save image: ...' of save_image_locally
SaveStatus(out) == IF out = "internal" THEN 500 ELSE 400

\* the stat loop of get_storage_info, the capacity check, the request body d
\* and the decode
SaveCheck(p, d) ==
  /\ req[p].pc = "sv_stat"
  /\ LET out == SaveOutcome(req[p].snap, d)
     IN IF out = "proceed"
        THEN Goto(p, [req[p] EXCEPT !.pc = "sv_write", !.snap = {}])
        ELSE Finish(p, Resp("save", SaveStatus(out), out, TRUE, <<>>))
  /\ UNCHANGED <<files, clock, ties, nextId, quota>>
  /\ Log(p)

\* image.save(filepath, 'PNG'): the file appears under its fresh name with
\* the size of the encoded image and the time t of the write, or the write
\* fails
SaveWrite(p) ==
  /\ req[p].pc = "sv_write"
  /\ \E ok \in BOOLEAN :
       IF ok
       THEN \E t \in WriteTimes :
              /\ files' = WriteFile(GenName(nextId), t, SizeOf(nextId))
              /\ clock' = t
              /\ ties' = IF t = clock THEN ties + 1 ELSE ties
              /\ nextId' = nextId + 1
              /\ Goto(p, [req[p] EXCEPT !.pc = "cl_list", !.fn = GenName(nextId)])
       ELSE /\ Finish(p, Resp("save", 400, "write", TRUE, <<>>))
            /\ UNCHANGED <<files, clock, ties, nextId>>
  /\ UNCHANGED quota
  /\ Log(p)

\* os.path.getsize(filepath) for the success descriptor
SaveSize(p) ==
  /\ req[p].pc = "sv_size"
  /\ IF Stored(req[p].fn)
     THEN Finish(p, Resp("save", 201, "", TRUE,
                         [filename |-> req[p].fn, size |-> files[req[p].fn].size]))
     ELSE Finish(p, Resp("save", 400, "getsize", TRUE, <<>>))
  /\ UNCHANGED <<files, clock, ties, nextId, quota>>
  /\ Log(p)

-----------------------------------------------------------------------------
(* cleanup_old_images, called by save_image_locally and by POST /cleanup *)

\* where the caller goes on when cleanup_old_images returns
AfterCleanup(r) ==
  [Idle EXCEPT !.op = r.op, !.fn = r.fn,
               !.pc = IF r.op = "save" THEN "sv_size" ELSE "cu_list"]

\* os.listdir
CleanupList(p) ==
  /\ req[p].pc = "cl_list"
  /\ Goto(p, [req[p] EXCEPT !.pc = "cl_stat", !.snap = DOMAIN files])
  /\ UNCHANGED <<files, clock, ties, nextId, quota>>
  /\ Log(p)

\* the getmtime loop, the sort and the count of images to remove; an
\* exception ends the function
CleanupStat(p) ==
  /\ req[p].pc = "cl_stat"
  /\ LET r == req[p] IN
     IF ScanOk(r.snap)
     THEN \E order \in Enumerations({n \in r.snap : allowed_file(n)}) :
            LET imgs == SortByMtime([k \in DOMAIN order |-> Entry(order[k])], FALSE)
                n == IF OverLimit(Len(imgs)) THEN ImagesToRemove(Len(imgs)) ELSE 0
            IN Goto(p, [r EXCEPT !.pc = "cl_rm", !.snap = {}, !.i = 0,
                                 !.images = [k \in 1..n |-> imgs[k].name]])
     ELSE Goto(p, AfterCleanup(r))
  /\ UNCHANGED <<files, clock, ties, nextId, quota>>
  /\ Log(p)

\* for i in range(images_to_remove): os.remove(images[i][0]); an exception
\* ends the function
CleanupRemove(p) ==
  /\ req[p].pc = "cl_rm"
  /\ LET r == req[p] IN
     IF r.i < Len(r.images)
     THEN IF Stored(r.images[r.i + 1])
          THEN /\ files' = RemoveFile(r.images[r.i + 1])
               /\ Goto(p, [r EXCEPT !.i = r.i + 1])
          ELSE /\ files' = files
               /\ Goto(p, AfterCleanup(r))
     ELSE /\ files' = files
          /\ Goto(p, AfterCleanup(r))
  /\ UNCHANGED <<clock, ties, nextId, quota>>
  /\ Log(p)

-----------------------------------------------------------------------------
(* POST /cleanup *)

\* cleanup_images: cleanup_old_images starts (os.listdir)
StartCleanup(p) ==
  /\ CanStart(p)
  /\ quota' = quota - 1
  /\ Goto(p, [Idle EXCEPT !.op = "cleanup", !.pc = "cl_stat",
                          !.snap = DOMAIN files])
  /\ UNCHANGED <<files, clock, ties, nextId>>
  /\ Log(p)

\* get_storage_info after the pass: os.listdir
CleanupInfoList(p) ==
  /\ req[p].pc = "cu_list"
  /\ Goto(p, [req[p] EXCEPT !.pc = "cu_stat", !.snap = DOMAIN files])
  /\ UNCHANGED <<files, clock, ties, nextId, quota>>
  /\ Log(p)

CleanupInfoStat(p) ==
  /\ req[p].pc = "cu_stat"
  /\ IF ScanOk(req[p].snap)
     THEN Finish(p, Resp("cleanup", 200, "", TRUE, get_storage_info(req[p].snap)))
     ELSE Finish(p, Resp("cleanup", 500, "cleanup_failed", TRUE, <<>>))
  /\ UNCHANGED <<files, clock, ties, nextId, quota>>
  /\ Log(p)

-----------------------------------------------------------------------------
(* GET /storage, GET / and GET /health *)

InfoOps == {"storage", "home", "health"}

StartInfo(p, op) ==
  /\ CanStart(p)
  /\ quota' = quota - 1
  /\ Goto(p, [Idle EXCEPT !.op = op, !.pc = "gs_stat", !.snap = DOMAIN files])
  /\ UNCHANGED <<files, clock, ties, nextId>>
  /\ Log(p)

\* storage_info converts an exception of the scan; home and health_check
\* have no try block
InfoStat(p) ==
  /\ req[p].pc = "gs_stat"
  /\ LET r == req[p] IN
     IF ScanOk(r.snap)
     THEN Finish(p, Resp(r.op, 200, "", TRUE, get_storage_info(r.snap)))
     ELSE IF r.op = "storage"
          THEN Finish(p, Resp(r.op, 500, "storage_failed", TRUE, <<>>))
          ELSE Finish(p, Resp(r.op, 500, "unhandled", TRUE, <<>>))
  /\ UNCHANGED <<files, clock, ties, nextId, quota>>
  /\ Log(p)

-----------------------------------------------------------------------------
(* GET /images *)

StartList(p) ==
  /\ CanStart(p)
  /\ quota' = quota - 1
  /\ Goto(p, [Idle EXCEPT !.op = "list", !.pc = "ls_stat", !.snap = DOMAIN files])
  /\ UNCHANGED <<files, clock, ties, nextId>>
  /\ Log(p)

\* the getsize/getmtime loop and the sort, newest first
ListStat(p) ==
  /\ req[p].pc = "ls_stat"
  /\ LET r == req[p] IN
     IF ScanOk(r.snap)
     THEN \E order \in Enumerations({n \in r.snap : allowed_file(n)}) :
            LET imgs == SortByMtime([k \in DOMAIN order |-> Entry(order[k])], TRUE)
            IN Finish(p, Resp("list", 200, "", TRUE,
                              [k \in DOMAIN imgs |-> imgs[k].name]))
     ELSE Finish(p, Resp("list", 500, "list_failed", TRUE, <<>>))
  /\ UNCHANGED <<files, clock, ties, nextId, quota>>
  /\ Log(p)

-----------------------------------------------------------------------------
(* GET /image/<filename> *)

\* the traversal check and os.path.exists
StartGet(p, fn) ==
  /\ CanStart(p)
  /\ quota' = quota - 1
  /\ IF IsUnsafe(fn)
     THEN Finish(p, Resp("get", 400, "invalid_filename", FALSE, <<>>))
     ELSE IF ~Stored(fn)
          THEN Finish(p, Resp("get", 404, "not_found", TRUE, <<>>))
          ELSE Goto(p, [Idle EXCEPT !.op = "get", !.pc = "gt_send", !.fn = fn])
  /\ UNCHANGED <<files, clock, ties, nextId>>
  /\ Log(p)

\* a get that removes the file it has sent
GetSendAndRemove(p) ==
  /\ req[p].pc = "gt_send"
  /\ IF Stored(req[p].fn)
     THEN /\ files' = RemoveFile(req[p].fn)
          /\ Finish(p, Resp("get", 200, "", TRUE, <<>>))
     ELSE /\ files' = files
          /\ Finish(p, Resp("get", 500, "get_failed", TRUE, <<>>))
  /\ UNCHANGED <<clock, ties, nextId, quota>>
  /\ Log(p)

\* send_file(filepath)
GetSend(p) ==
  /\ req[p].pc = "gt_send"
  /\ IF Stored(req[p].fn)
     THEN Finish(p, Resp("get", 200, "", TRUE, <<>>))
     ELSE Finish(p, Resp("get", 500, "get_failed", TRUE, <<>>))
  /\ UNCHANGED <<files, clock, ties, nextId, quota>>
  /\ Log(p)

-----------------------------------------------------------------------------
(* DELETE /image/<filename> *)

\* the traversal check and os.path.exists
StartDelete(p, fn) ==
  /\ CanStart(p)
  /\ quota' = quota - 1
  /\ IF IsUnsafe(fn)
     THEN Finish(p, Resp("delete", 400, "invalid_filename", FALSE, <<>>))
     ELSE IF ~Stored(fn)
          THEN Finish(p, Resp("delete", 404, "not_found", TRUE, <<>>))
          ELSE Goto(p, [Idle EXCEPT !.op = "delete", !.pc = "dl_rm", !.fn = fn])
  /\ UNCHANGED <<files, clock, ties, nextId>>
  /\ Log(p)

\* os.remove(filepath)
DeleteRemove(p) ==
  /\ req[p].pc = "dl_rm"
  /\ IF Stored(req[p].fn)
     THEN /\ files' = RemoveFile(req[p].fn)
          /\ Finish(p, Resp("delete", 200, "", TRUE, <<>>))
     ELSE /\ files' = files
          /\ Finish(p, Resp("delete", 500, "delete_failed", TRUE, <<>>))
  /\ UNCHANGED <<clock, ties, nextId, quota>>
  /\ Log(p)

-----------------------------------------------------------------------------
(* Specifications *)

\* a request arrives at the worker p
Begin(p) ==
  \/ StartSave(p)
  \/ StartCleanup(p)
  \/ \E op \in InfoOps : StartInfo(p, op)
  \/ StartList(p)
  \/ \E fn \in ReqNames : StartGet(p, fn)
  \/ \E fn \in ReqNames : StartDelete(p, fn)

\* the request of the worker p takes its next step
Run(p) ==
  \/ \E d \in Payloads : SaveCheck(p, d)
  \/ SaveWrite(p)
  \/ SaveSize(p)
  \/ CleanupList(p)
  \/ CleanupStat(p)
  \/ CleanupRemove(p)
  \/ CleanupInfoList(p)
  \/ CleanupInfoStat(p)
  \/ InfoStat(p)
  \/ ListStat(p)
  \/ GetSend(p)
  \/ DeleteRemove(p)

Next == \E p \in Procs : Begin(p) \/ Run(p)

\* the concurrent server: NProcs workers, from a directory within capacity
Spec == Init /\ [][Next]_vars

InitEmpty ==
  /\ files = << >>
  /\ clock = 0
  /\ nextId = 1
  /\ ties = 0
  /\ quota = MaxReqs
  /\ req = [p \in Procs |-> Idle]
  /\ resp = NoResp
  /\ serial = TRUE
  /\ hist = <<>>

\* requests one after another, from an empty directory
SeqSpec == InitEmpty /\ [][Next]_vars

InitName(i, legacy) == IF legacy /\ i = 1 THEN LegacyPng ELSE GenName(i)

\* any directory of up to MaxInit images, within or over capacity, with
\* equal or different modification times
InitAny ==
  /\ \E k \in 0..MaxInit, junk \in BOOLEAN, legacy \in BOOLEAN :
       \E mt \in [1..k -> 1..k] :
         /\ files = [n \in {InitName(i, legacy) : i \in 1..k}
                             \cup (IF junk THEN {NotesTxt} ELSE {})
                       |-> IF n = NotesTxt THEN [mtime |-> 0, size |-> 1]
                           ELSE LET i == CHOOSE j \in 1..k : n = InitName(j, legacy)
                                IN [mtime |-> mt[i], size |-> SizeOf(i)]]
         /\ clock = k
         /\ nextId = k + 1
  /\ ties = 0
  /\ quota = MaxMaint
  /\ req = [p \in Procs |-> Idle]
  /\ resp = NoResp
  /\ serial = TRUE
  /\ hist = <<>>

\* requests one after another, from any directory
MaintSpec == InitAny /\ [][Next]_vars

-----------------------------------------------------------------------------
(* Properties *)

\* a name that ends in a dot and an image extension, in either case
ImageName(n) ==
  /\ Len(n) >= 2
  /\ n[Len(n) - 1] = "."
  /\ n[Len(n)] \in ALLOWED_EXTENSIONS \cup {"PNG", "JPG"}

ImagesOf(f) == {n \in DOMAIN f : ImageName(n)}

\* a save is in flight
Saving(p) == req[p].op = "save"

\* p is at the stat loop of a scan and a file of its snapshot is gone
ScanRaced(p) ==
  /\ req[p].pc \in {"sv_stat", "cl_stat", "cu_stat", "gs_stat", "ls_stat"}
  /\ ~ScanOk(req[p].snap)

\* C1: in a run that handles one request at a time from an empty directory,
\* the directory holds at most MAX_IMAGES images when a save has completed.
C1_CapacityAfterSave ==
  \A i \in DOMAIN hist :
    hist[i].op = "save" =>
      Cardinality({n \in hist[i].names : ImageName(n)}) <= MAX_IMAGES

\* a save completed with success and left the directory full
C1_Witness ==
  \E i \in DOMAIN hist :
    /\ hist[i].op = "save"
    /\ hist[i].status = 201
    /\ Cardinality({n \in hist[i].names : ImageName(n)}) = MAX_IMAGES

\* the responses a save gives to a body that is no valid image, or when the
\* write fails
BodyOrWriteError == {"decode", "filetype", "nodata", "write"}

\* the run of the scenario: three saves one after another from the empty
\* directory, the first two successful, the third not refused for its body
\* or by a failing write, no two writes in the same instant
ThreeSaves ==
  /\ MAX_IMAGES = 2
  /\ Len(hist) = 3
  /\ \A i \in 1..3 : hist[i].op = "save"
  /\ hist[1].status = 201
  /\ hist[2].status = 201
  /\ hist[3].err \notin BodyOrWriteError
  /\ ties = 0

\* C2 as stated: after the saves of A, B and C with MAX_IMAGES = 2, the save
\* of C succeeded, A is gone and the directory holds exactly B and C.
C2_Original ==
  ThreeSaves =>
    /\ hist[3].status = 201
    /\ ImagesOf(files) = {hist[2].body.filename, hist[3].body.filename}

\* C2 amended: after the saves of A and B with MAX_IMAGES = 2, the save of
\* C is rejected with the capacity error (400) and the directory holds
\* exactly A and B.
C2_Amended ==
  ThreeSaves =>
    /\ hist[3].status = 400
    /\ hist[3].err = "capacity"
    /\ ImagesOf(files) = {hist[1].body.filename, hist[2].body.filename}
    /\ hist[3].names = hist[2].names

C2_Witness == ThreeSaves

\* C3 as stated: whenever no request is in flight, the directory holds at
\* most MAX_IMAGES images.
C3_QuiescentWithinCapacity ==
  Quiescent => Cardinality(ImagesOf(files)) <= MAX_IMAGES

\* C4 as stated: the directory never holds more than MAX_IMAGES + 1 images.
C4_Original == Cardinality(ImagesOf(files)) <= MAX_IMAGES + 1

\* C4 amended: with NProcs requests handled at the same time, the directory
\* never holds more than MAX_IMAGES + NProcs - 1 images.
C4_Amended == Cardinality(ImagesOf(files)) <= MAX_IMAGES + NProcs - 1

\* several saves are in flight and the directory holds MAX_IMAGES + NProcs - 1
\* images
C4_Witness ==
  /\ Cardinality(ImagesOf(files)) = MAX_IMAGES + NProcs - 1
  /\ Cardinality({p \in Procs : Saving(p)}) >= 2

\* C5: a save whose scan counted MAX_IMAGES images or more ends at its
\* capacity check with the capacity error (400); it decodes, writes and
\* evicts nothing and the directory is unchanged.
C5_CapacityRejection ==
  [][\A p \in Procs :
       (/\ req[p].pc = "sv_stat"
        /\ ScanOk(req[p].snap)
        /\ Cardinality(ImagesOf([n \in req[p].snap |-> 0])) >= MAX_IMAGES
        /\ req'[p] # req[p])
       => /\ resp'.op = "save"
          /\ resp'.status = 400
          /\ resp'.err = "capacity"
          /\ req'[p] = Idle
          /\ files' = files
          /\ nextId' = nextId]_vars

\* a save was rejected with the capacity error
C5_Witness == resp.op = "save" /\ resp.err = "capacity"

Oldest(n) == \A m \in ImagesOf(files) : files[n].mtime <= files[m].mtime

DistinctTimes ==
  \A a, b \in ImagesOf(files) : a # b => files[a].mtime # files[b].mtime

\* p is in an eviction pass
InPass(p) == req[p].pc \in {"cl_stat", "cl_rm"}

\* C6: an eviction pass that runs alone over images with different
\* modification times removes a file only while the directory is over
\* MAX_IMAGES, the file it removes is the oldest one left, and it ends with
\* at most MAX_IMAGES images: it removes exactly the n - MAX_IMAGES oldest,
\* and nothing when n <= MAX_IMAGES.
C6_EvictionOrder ==
  [][\A p \in Procs :
       /\ (InPass(p) /\ DistinctTimes /\ files' # files)
            => /\ Cardinality(ImagesOf(files)) > MAX_IMAGES
               /\ \E n \in ImagesOf(files) : Oldest(n) /\ files' = RemoveFile(n)
       /\ (InPass(p) /\ DistinctTimes /\ req'[p] # req[p] /\ req'[p].pc # "cl_rm")
            => Cardinality(ImagesOf(files')) <= MAX_IMAGES]_vars

\* a pass has removed its two candidates, from images with different times
C6_Witness ==
  \E p \in Procs :
    /\ req[p].pc = "cl_rm"
    /\ Len(req[p].images) >= 2
    /\ req[p].i = Len(req[p].images)
    /\ DistinctTimes
    /\ hist = <<>>

\* C7 as stated: when the removal of a candidate fails and candidates remain,
\* the pass goes on to the next candidate.
C7_RemovalGoesOn ==
  [][\A p \in Procs :
       (/\ req[p].pc = "cl_rm"
        /\ req[p].i + 1 < Len(req[p].images)
        /\ ~Stored(req[p].images[req[p].i + 1])
        /\ req'[p] # req[p])
       => /\ req'[p].pc = "cl_rm"
          /\ req'[p].i = req[p].i + 1]_vars

\* C8 as stated: a scan that finds a file of its snapshot gone skips it; the
\* operation does not end in an error and an eviction pass goes on to its
\* removals.
C8_ScanSkipsMissing ==
  [][\A p \in Procs :
       (ScanRaced(p) /\ req'[p] # req[p])
       => /\ resp'.status # 500
          /\ (req[p].pc = "cl_stat" => req'[p].pc = "cl_rm")]_vars

\* C9: get and delete of "../etc/passwd" or "/etc/passwd" end with the
\* invalid-filename error (400) without a filesystem call, and the directory
\* is unchanged.
C9_TraversalGuard ==
  [][\A p \in Procs, fn \in {ParentPath, RootPath} :
       (StartGet(p, fn) \/ StartDelete(p, fn))
       => /\ resp'.status = 400
          /\ resp'.err = "invalid_filename"
          /\ ~resp'.io
          /\ req'[p] = Idle
          /\ files' = files]_vars

\* a get or a delete was rejected by the traversal check
C9_Witness == resp.err = "invalid_filename" /\ files # << >>

\* C10: two cleanup calls one after the other return the same usage summary,
\* and the second leaves the directory as the first left it.
C10_IdempotentCleanup ==
  \A i \in 1..(Len(hist) - 1) :
    (hist[i].op = "cleanup" /\ hist[i + 1].op = "cleanup")
    => /\ hist[i].status = 200
       /\ hist[i + 1].status = 200
       /\ hist[i + 1].body = hist[i].body
       /\ hist[i + 1].names = hist[i].names

\* two cleanup calls ran on a directory that started over capacity
C10_Witness ==
  /\ Len(hist) = 2
  /\ hist[1].op = "cleanup"
  /\ hist[2].op = "cleanup"
  /\ nextId - 1 > MAX_IMAGES

RECURSIVE SizeSum(_, _)
SizeSum(f, S) ==
  IF S = {} THEN 0
  ELSE LET n == CHOOSE x \in S : TRUE IN f[n].size + SizeSum(f, S \ {n})

\* the usage summary of the directory f, from its definition: the number of
\* images, the sum of their sizes, the limit and the free slots
Usage(f) ==
  LET count == Cardinality(ImagesOf(f)) IN
  [total_images |-> count,
   total_size_bytes |-> SizeSum(f, ImagesOf(f)),
   max_images |-> MAX_IMAGES,
   remaining_slots |-> IF count < MAX_IMAGES THEN MAX_IMAGES - count ELSE 0]

\* the request bodies that carry malformed base64 or bytes that are no image
BadPayloads == {d \in Payloads : d.content \in {"badb64", "notimage"}}

\* C11: on a server that handles one request at a time, a save whose body is
\* malformed base64 or does not decode to an image ends with status 400
\* before anything is written: no file name is used, no file is created or
\* removed, no eviction pass starts, and the usage summary of the directory
\* after the response equals the one the save computed when it started.
C11_FailedDecode ==
  [][\A p \in Procs :
       req[p].pc = "sv_stat" =>
         \A d \in BadPayloads :
       SaveCheck(p, d)
       => /\ resp'.op = "save"
          /\ resp'.status = 400
          /\ resp'.err \in {"decode", "capacity"}
          /\ req'[p] = Idle
          /\ files' = files
          /\ nextId' = nextId
          /\ Usage(files') = get_storage_info(req[p].snap)]_vars

\* a save below capacity was refused because its body did not decode
C11_Witness ==
  /\ resp.op = "save"
  /\ resp.err = "decode"
  /\ serial
  /\ files # << >>

\* C12 as stated: every response of every endpoint is a result the handler
\* built; no exception of a scan leaves a handler unconverted.
C12_ErrorConversion == resp.err # "unhandled"

\* C13 as stated: a delete of a safe filename ends in success (200) or in
\* NotFound (404), also when another delete or an eviction removes the same
\* file at the same time.
C13_DeleteOutcome ==
  (resp.op = "delete" /\ resp.err # "invalid_filename")
    => resp.status \in {200, 404}

\* C14 as stated: a save whose write fails after a successful decode answers
\* with a 5xx status.
C14_WriteFailureIsServerError ==
  (resp.op = "save" /\ resp.err = "write") => resp.status >= 500

\* C15: on a server that handles one request at a time, the usage summary
\* that /storage, /, /health and /cleanup return is the one of the directory
\* at that moment: the number of files with an allowed extension, the sum of
\* their sizes, MAX_IMAGES, and max(0, MAX_IMAGES - count) free slots, which
\* is never negative, also over capacity; and in every state the scan of
\* the directory computes that summary.
C15_UsageMatchesDirectory ==
  [][/\ get_storage_info(DOMAIN files) = Usage(files)
     /\ \A p \in Procs :
          (req[p].pc \in {"gs_stat", "cu_stat"} /\ req'[p] # req[p])
          => /\ resp'.status = 200
             /\ resp'.body = Usage(files)
             /\ resp'.body.remaining_slots >= 0
             /\ resp'.body.remaining_slots <= MAX_IMAGES]_vars

\* a summary was returned for a directory over capacity that also holds a
\* file that is no image
C15_Witness ==
  /\ resp.op \in InfoOps
  /\ resp.status = 200
  /\ resp.body.total_images > MAX_IMAGES
  /\ resp.body.remaining_slots = 0
  /\ Stored(NotesTxt)

\* the place of an image name in ascending filename order: the generated
\* names by their number, "photo.PNG" after every "nexus_edit_..." name
NameIndex(n) ==
  IF \E i \in 0..nextId : n = GenName(i)
  THEN CHOOSE i \in 0..nextId : n = GenName(i)
  ELSE nextId + 1

\* the names an eviction pass has chosen to remove
Candidates(r) == {r.images[k] : k \in DOMAIN r.images}

\* C16 as stated: when an eviction pass chooses between images with the same
\* modification time, it removes the one whose filename comes first, so an
\* image it keeps never has the time of a removed image and an earlier name.
C16_TieBreakByName ==
  [][\A p \in Procs :
       (req[p].pc = "cl_stat" /\ req'[p].pc = "cl_rm")
       => \A r \in Candidates(req'[p]) :
            \A k \in ImagesOf(files) \ Candidates(req'[p]) :
              files[r].mtime = files[k].mtime => NameIndex(r) < NameIndex(k)]_vars

\* C17 as stated: in every interleaving, a save that passed the capacity
\* check and wrote its file answers 201 with the name of that file; it never
\* answers with a failure after the write.
C17_PersistedSaveSucceeds ==
  [][\A p \in Procs :
       (req[p].pc = "sv_size" /\ req'[p] # req[p])
       => /\ resp'.op = "save"
          /\ resp'.status = 201
          /\ resp'.body.filename = req[p].fn]_vars

\* C18: on a server that handles one request at a time, the eviction pass
\* of a save finds nothing to remove: every file that was stored before a
\* successful save is still stored after it, the saved file is stored, and
\* a listing that follows the save contains it.
C18_SequentialSaveEvictsNothing ==
  /\ \A p \in Procs :
       (Saving(p) /\ req[p].pc = "cl_rm") => req[p].images = <<>>
  /\ \A i \in DOMAIN hist :
       (hist[i].op = "save" /\ hist[i].status = 201)
       => /\ hist[i].body.filename \in hist[i].names
          /\ Cardinality({n \in hist[i].names : ImageName(n)}) <= MAX_IMAGES
          /\ i > 1 => hist[i - 1].names \subseteq hist[i].names
          /\ (i < Len(hist) /\ hist[i + 1].op = "list")
               => /\ hist[i + 1].status = 200
                  /\ \E k \in DOMAIN hist[i + 1].body :
                       hist[i + 1].body[k] = hist[i].body.filename

\* a save filled the directory to MAX_IMAGES and a listing followed it
C18_Witness ==
  /\ Len(hist) = 2
  /\ hist[1].op = "save"
  /\ hist[1].status = 201
  /\ hist[2].op = "list"
  /\ Cardinality(ImagesOf(files)) = MAX_IMAGES

\* the operations that only read the directory
ReadOnlyOps == {"home", "list", "get", "storage", "health"}

\* the refusals of a request: the capacity check, the traversal check, a
\* missing file, a body without image data, an upload that is no image file
Rejections == {"capacity", "invalid_filename", "not_found", "nodata", "filetype"}

\* C19: in every interleaving, a step removes a file only as the os.remove
\* of a delete or of the eviction pass of a save or a cleanup, and it leaves
\* every other file as it was; no step of a home, list, get, storage or
\* health request changes the directory; and a request that is refused
\* (capacity, invalid filename, not found, no image data, disallowed upload
\* extension) ends without having written or removed anything.
C19_Frame ==
  [][/\ (DOMAIN files \ DOMAIN files' # {})
          => \E p \in Procs :
               /\ req'[p] # req[p]
               /\ \/ req[p].op = "delete" /\ req[p].pc = "dl_rm"
                  \/ req[p].op \in {"save", "cleanup"} /\ req[p].pc = "cl_rm"
     /\ \A n \in DOMAIN files \cap DOMAIN files' : files'[n] = files[n]
     /\ \A p \in Procs :
          (req[p].op \in ReadOnlyOps /\ req'[p] # req[p]) => files' = files
     /\ resp'.op \in ReadOnlyOps => files' = files
     /\ resp'.err \in Rejections
          => /\ files' = files
             /\ \A p \in Procs : req'[p] # req[p] => req[p].pc = "sv_stat"]_vars

\* a get has been answered after at least two files had left the directory
C19_Witness ==
  /\ resp.op = "get"
  /\ resp.status = 200
  /\ nextId - 1 > Cardinality(DOMAIN files) + 1

====
